---- MODULE Spec2Model ----
(***************************************************************************)
(* State model of the project library (src/src/project_library.rs) and of  *)
(* the application around it (src/src/main.rs).                            *)
(*                                                                         *)
(*   Spec         the library under its three mutating operations          *)
(*   SpecApp      a loaded library under the key dispatch                  *)
(*   SpecPersist  save and from_file on a library and a file               *)
(*   SpecLibrary  every operation of the library, render included          *)
(*   SpecMain     main: bootstrap, load, the run loop, save, restore       *)
(*                                                                         *)
(* usize values are kept as integers in a window around zero: a value      *)
(* v >= 0 stands for itself and a value v < 0 stands for 2^64 + v (so -1   *)
(* is usize::MAX).  Addition and subtraction of 1 are then the integer     *)
(* ones, and only the comparisons have to read the sign (usize_lt).        *)
(***************************************************************************)
EXTENDS Integers, Sequences, FiniteSets, TLC

\* ---------------------------------------------------------------- bounds
\* The longest projects vector the model builds.
MaxProjects == 3
\* The longest projects vector a loaded document holds.
MaxLoaded == 2
\* How far from 0 (on either side, modulo 2^64) the selection index may be
\* driven on an empty vector before the model stops cycling it further.
MaxIndexDrift == 1
\* The number of save calls the model follows.
MaxSaves == 1

\* ------------------------------------------------------------ value sets
CycleDirection == {"Up", "Down"}

ProjectStatus == {"Finished", "InProgress", "Idea", "Paused"}

\* the (name, description) pairs projects are made of
Inputs == {<<"Website", "Personal site">>, <<"CLI Tool", "">>}

Paths == {"config/config.toml"}

AppState == {"MainView", "DeletingProject", "AddingProject", "Exiting"}

KeyCode == {"q", "Up", "k", "Down", "j", " ", "A", "D", "Esc", "x"}

Project ==
    {[name |-> i[1], description |-> i[2], status |-> s] :
        i \in Inputs, s \in ProjectStatus}

NoProject == [name |-> "", description |-> "", status |-> "Idea"]

VARIABLES
    projects,                 \* ProjectLibrary.projects
    selected_project_index,   \* ProjectLibrary.selected_project_index (usize)
    library_file_path,        \* ProjectLibrary.library_file_path
    state,                    \* App.state
    overflow_checks,          \* the build: TRUE debug (overflow panics), FALSE release (wraps)
    panicked,                 \* the thread has panicked
    last_call,                \* the call (and key, if any) of the last step
    before,                   \* projects and index as they were before the last step
    prev_call,                \* the call before the last one, when both are calls of one operation
    before_prev,              \* projects and index as they were before that call
    run_start,                \* index before the first call of the current run of Down calls
    run_count,                \* number of consecutive cycle_selected_project(Down) calls
    file,                     \* what the file system holds at the library's path
    ret,                      \* the Result of the last call that returns one
    pc,                       \* where main is
    terminal,                 \* the terminal: "cooked", "raw" (ratatui::init) or "restored"
    save_calls                \* number of calls of ProjectLibrary::save

vars == <<projects, selected_project_index, library_file_path, state,
          overflow_checks, panicked, last_call, before, prev_call,
          before_prev, run_start, run_count, file, ret, pc, terminal,
          save_calls>>

\* the state outside the library and App.state
process == <<file, ret, pc, terminal, save_calls>>

\* ----------------------------------------------------------------- usize
\* a < b on usize values in the window representation
usize_lt(a, b) == IF (a >= 0) = (b >= 0) THEN a < b ELSE a >= 0

usize_ge(a, b) == ~usize_lt(a, b)

\* the index is one the model still follows: any index into the vector, and
\* the other values of usize up to MaxIndexDrift away from 0
InWindow(i, len) ==
    \/ i >= 0 /\ i < len
    \/ i >= -MaxIndexDrift /\ i <= MaxIndexDrift

\* --------------------------------------------------------- ProjectStatus
cycle_swapped(self, direction) ==
    IF direction = "Up"
    THEN CASE self = "Finished" -> "InProgress"
           [] self = "InProgress" -> "Idea"
           [] self = "Idea" -> "Paused"
           [] self = "Paused" -> "Finished"
    ELSE CASE self = "Finished" -> "Paused"
           [] self = "InProgress" -> "Finished"
           [] self = "Idea" -> "InProgress"
           [] self = "Paused" -> "Idea"

cycle_down_slip(self, direction) ==
    IF direction = "Up"
    THEN CASE self = "Finished" -> "Paused"
           [] self = "InProgress" -> "Finished"
           [] self = "Idea" -> "InProgress"
           [] self = "Paused" -> "Idea"
    ELSE CASE self = "Finished" -> "InProgress"
           [] self = "InProgress" -> "Idea"
           [] self = "Idea" -> "Finished"
           [] self = "Paused" -> "Finished"

cycle(self, direction) ==
    IF direction = "Up"
    THEN CASE self = "Finished" -> "Paused"
           [] self = "InProgress" -> "Finished"
           [] self = "Idea" -> "InProgress"
           [] self = "Paused" -> "Idea"
    ELSE CASE self = "Finished" -> "InProgress"
           [] self = "InProgress" -> "Idea"
           [] self = "Idea" -> "Paused"
           [] self = "Paused" -> "Finished"

\* --------------------------------------------------------------- Project
Project_new(name, description) ==
    [name |-> name, description |-> description, status |-> "Idea"]

cycle_status(project, direction) ==
    [project EXCEPT !.status = cycle(project.status, direction)]

\* -------------------------------------------------------- ProjectLibrary
\* Vec::push of add_project
push_unique(vec, project) ==
    IF \E i \in 1..Len(vec) : vec[i].name = project.name
    THEN vec
    ELSE Append(vec, project)

push(vec, project) == Append(vec, project)

\* Vec::get_mut: the position (1-based here) of the element at a usize
\* index, as a set that is empty for None
get_mut_clamped(vec, index) ==
    IF index >= 0 /\ index < Len(vec) THEN {index + 1}
    ELSE IF Len(vec) > 0 THEN {Len(vec)} ELSE {}

get_mut_off_by_one(vec, index) ==
    IF index >= 0 /\ index < Len(vec)
    THEN {index + 2} \cap (1..Len(vec))
    ELSE {}

get_mut(vec, index) ==
    IF index >= 0 /\ index < Len(vec) THEN {index + 1} ELSE {}

\* `self.projects.len() - 1` overflows exactly when the vector is empty
len_minus_1_overflows(len) == usize_lt(len, 1)

\* The body of cycle_selected_project as a function of the index, the
\* length, the direction and the build: whether it panics, and the index
\* it leaves.
next_selected_no_wrap(index, len, direction, checks) ==
    IF direction = "Down"
    THEN IF len_minus_1_overflows(len) /\ checks
         THEN [panic |-> TRUE, index |-> index]
         ELSE IF usize_ge(index, len - 1)
              THEN [panic |-> FALSE, index |-> index]
              ELSE [panic |-> FALSE, index |-> index + 1]
    ELSE IF index = 0
         THEN IF len_minus_1_overflows(len) /\ checks
              THEN [panic |-> TRUE, index |-> index]
              ELSE [panic |-> FALSE, index |-> 0]
         ELSE [panic |-> FALSE, index |-> index - 1]

next_selected(index, len, direction, checks) ==
    IF direction = "Down"
    THEN IF len_minus_1_overflows(len) /\ checks
         THEN [panic |-> TRUE, index |-> index]
         ELSE IF usize_ge(index, len - 1)
              THEN [panic |-> FALSE, index |-> 0]
              ELSE [panic |-> FALSE, index |-> index + 1]
    ELSE IF index = 0
         THEN IF len_minus_1_overflows(len) /\ checks
              THEN [panic |-> TRUE, index |-> index]
              ELSE [panic |-> FALSE, index |-> len - 1]
         ELSE [panic |-> FALSE, index |-> index - 1]

\* ------------------------------------------------------------- recording
Call(op, direction, project, key) ==
    [op |-> op, direction |-> direction, project |-> project, key |-> key]

NoCall == Call("none", "None", NoProject, "None")

NoPrev == [op |-> "none", direction |-> "None"]

Snapshot ==
    [projects |-> projects, index |-> selected_project_index,
     path |-> library_file_path, state |-> state, ret |-> ret]

Record(call) ==
    /\ last_call' = call
    /\ before' = Snapshot
    /\ IF call.op = last_call.op /\ call.op /= "none"
       THEN /\ prev_call' = [op |-> last_call.op,
                             direction |-> last_call.direction]
            /\ before_prev' = before
       ELSE /\ prev_call' = NoPrev
            /\ before_prev' = Snapshot
    /\ IF call.op = "cycle_selected_project" /\ call.direction = "Down"
          /\ Len(projects) > 0
       THEN IF last_call.op = "cycle_selected_project"
               /\ last_call.direction = "Down"
               /\ run_count > 0 /\ run_count < Len(projects)
            THEN run_count' = run_count + 1 /\ run_start' = run_start
            ELSE run_count' = 1 /\ run_start' = selected_project_index
       ELSE run_count' = 0 /\ run_start' = 0

\* ------------------------------------------------------------------ Init
SeqsUpTo(S, n) == UNION {[1..k -> S] : k \in 0..n}

\* #[derive(Default)]: an empty vector, index 0, an empty path
Default ==
    /\ projects = <<>>
    /\ selected_project_index = 0
    /\ library_file_path = ""

\* from_file: the parsed projects, the skipped fields at their defaults,
\* then the path bound
from_file ==
    /\ projects \in SeqsUpTo(Project, MaxLoaded)
    /\ selected_project_index = 0
    /\ library_file_path \in Paths

InitRest ==
    /\ state = "MainView"
    /\ overflow_checks \in BOOLEAN
    /\ panicked = FALSE
    /\ last_call = NoCall
    /\ before = Snapshot
    /\ prev_call = NoPrev
    /\ before_prev = Snapshot
    /\ run_start = 0
    /\ run_count = 0

\* no file, no process: the library is used through its operations alone
NoProcess ==
    /\ file = [kind |-> "missing", projects |-> <<>>]
    /\ ret = "none"
    /\ pc = "none"
    /\ terminal = "cooked"
    /\ save_calls = 0

Init == (Default \/ from_file) /\ NoProcess /\ InitRest

\* --------------------------------------------------- library operations
add_project_body(project, key) ==
    /\ projects' = push(projects, project)
    /\ UNCHANGED <<selected_project_index, library_file_path, panicked>>
    /\ Record(Call("add_project", "None", project, key))

cycle_selected_project_body(direction, key) ==
    LET r == next_selected(selected_project_index, Len(projects), direction,
                           overflow_checks)
    IN /\ InWindow(r.index, Len(projects))
       /\ panicked' = r.panic
       /\ selected_project_index' = r.index
       /\ UNCHANGED <<projects, library_file_path>>
       /\ Record(Call("cycle_selected_project", direction, NoProject, key))

cycle_selected_project_status_body(direction, key) ==
    /\ projects' = [i \in 1..Len(projects) |->
                      IF i \in get_mut(projects, selected_project_index)
                      THEN cycle_status(projects[i], direction)
                      ELSE projects[i]]
    /\ UNCHANGED <<selected_project_index, library_file_path, panicked>>
    /\ Record(Call("cycle_selected_project_status", direction, NoProject, key))

add_project ==
    /\ ~panicked
    /\ Len(projects) < MaxProjects
    /\ \E i \in Inputs : add_project_body(Project_new(i[1], i[2]), "None")
    /\ UNCHANGED <<state, overflow_checks, process>>

cycle_selected_project ==
    /\ ~panicked
    /\ \E direction \in CycleDirection :
          cycle_selected_project_body(direction, "None")
    /\ UNCHANGED <<state, overflow_checks, process>>

cycle_selected_project_status ==
    /\ ~panicked
    /\ \E direction \in CycleDirection :
          cycle_selected_project_status_body(direction, "None")
    /\ UNCHANGED <<state, overflow_checks, process>>

Next ==
    \/ add_project
    \/ cycle_selected_project
    \/ cycle_selected_project_status

Spec == Init /\ [][Next]_vars

\* ------------------------------------------------------------------- App
\* main: the library is loaded with from_file, App::new starts in MainView
AppInit == from_file /\ NoProcess /\ InitRest

NoLibraryCall(key) ==
    /\ UNCHANGED <<projects, selected_project_index, library_file_path,
                   panicked>>
    /\ Record(Call("none", "None", NoProject, key))

handle_key_event_adds(key) ==
    \/ /\ key = "q"
       /\ state' = "Exiting"
       /\ NoLibraryCall(key)
    \/ /\ key \in {"Up", "k"}
       /\ cycle_selected_project_body("Up", key)
       /\ UNCHANGED state
    \/ /\ key \in {"Down", "j"}
       /\ cycle_selected_project_body("Down", key)
       /\ UNCHANGED state
    \/ /\ key = " "
       /\ cycle_selected_project_status_body("Up", key)
       /\ UNCHANGED state
    \/ /\ key = "A"
       /\ state' = "AddingProject"
       /\ add_project_body(Project_new("Website", "Personal site"), key)
    \/ /\ key = "D"
       /\ state' = "DeletingProject"
       /\ NoLibraryCall(key)
    \/ /\ key = "Esc"
       /\ state' = "MainView"
       /\ NoLibraryCall(key)
    \/ /\ key \notin {"q", "Up", "k", "Down", "j", " ", "A", "D", "Esc"}
       /\ UNCHANGED state
       /\ NoLibraryCall(key)

handle_key_event_modal(key) ==
    \/ /\ key = "q"
       /\ state' = "Exiting"
       /\ NoLibraryCall(key)
    \/ /\ key \in {"Up", "k"}
       /\ IF state = "MainView"
          THEN cycle_selected_project_body("Up", key)
          ELSE NoLibraryCall(key)
       /\ UNCHANGED state
    \/ /\ key \in {"Down", "j"}
       /\ IF state = "MainView"
          THEN cycle_selected_project_body("Down", key)
          ELSE NoLibraryCall(key)
       /\ UNCHANGED state
    \/ /\ key = " "
       /\ cycle_selected_project_status_body("Up", key)
       /\ UNCHANGED state
    \/ /\ key = "A"
       /\ state' = "AddingProject"
       /\ NoLibraryCall(key)
    \/ /\ key = "D"
       /\ state' = "DeletingProject"
       /\ NoLibraryCall(key)
    \/ /\ key = "Esc"
       /\ state' = "MainView"
       /\ NoLibraryCall(key)
    \/ /\ key \notin {"q", "Up", "k", "Down", "j", " ", "A", "D", "Esc"}
       /\ UNCHANGED state
       /\ NoLibraryCall(key)

handle_key_event(key) ==
    \/ /\ key = "q"
       /\ state' = "Exiting"
       /\ NoLibraryCall(key)
    \/ /\ key \in {"Up", "k"}
       /\ cycle_selected_project_body("Up", key)
       /\ UNCHANGED state
    \/ /\ key \in {"Down", "j"}
       /\ cycle_selected_project_body("Down", key)
       /\ UNCHANGED state
    \/ /\ key = " "
       /\ cycle_selected_project_status_body("Up", key)
       /\ UNCHANGED state
    \/ /\ key = "A"
       /\ state' = "AddingProject"
       /\ NoLibraryCall(key)
    \/ /\ key = "D"
       /\ state' = "DeletingProject"
       /\ NoLibraryCall(key)
    \/ /\ key = "Esc"
       /\ state' = "MainView"
       /\ NoLibraryCall(key)
    \/ /\ key \notin {"q", "Up", "k", "Down", "j", " ", "A", "D", "Esc"}
       /\ UNCHANGED state
       /\ NoLibraryCall(key)

\* one pass of the loop of App::run that reads a key press
handle_events ==
    /\ ~panicked
    /\ state /= "Exiting"
    /\ \E key \in KeyCode : handle_key_event(key)
    /\ UNCHANGED <<overflow_checks, process>>

AppNext == handle_events

SpecApp == AppInit /\ [][AppNext]_vars

\* ----------------------------------------------------------- persistence
\* #[serde(rename_all="snake_case")] on ProjectStatus: the token written
\* for each status
to_token_lowercase(status) ==
    CASE status = "Finished" -> "finished"
      [] status = "InProgress" -> "inprogress"
      [] status = "Idea" -> "idea"
      [] status = "Paused" -> "paused"

to_token(status) ==
    CASE status = "Finished" -> "finished"
      [] status = "InProgress" -> "in_progress"
      [] status = "Idea" -> "idea"
      [] status = "Paused" -> "paused"

\* the status a token is read as; "Err" for a token that names no variant
from_token_defaulting(token) ==
    CASE token = "finished" -> "Finished"
      [] token = "in_progress" -> "InProgress"
      [] token = "idea" -> "Idea"
      [] token = "paused" -> "Paused"
      [] OTHER -> "Idea"

from_token(token) ==
    CASE token = "finished" -> "Finished"
      [] token = "in_progress" -> "InProgress"
      [] token = "idea" -> "Idea"
      [] token = "paused" -> "Paused"
      [] OTHER -> "Err"

\* the status tokens documents are written with: the four of the schema
\* and one that is not
Tokens == {"finished", "in_progress", "idea", "paused", "done"}

\* a [[projects]] table of a document
Table ==
    {[name |-> i[1], description |-> i[2], status |-> t] :
        i \in Inputs, t \in Tokens}

NoFile == [kind |-> "missing", projects |-> <<>>]

NotToml == [kind |-> "garbage", projects |-> <<>>]

\* what the path may hold: nothing, text that is not a document, a document
Files ==
    {NoFile, NotToml}
    \cup {[kind |-> "toml", projects |-> d] : d \in SeqsUpTo(Table, MaxLoaded)}

\* toml::to_string_pretty(self): the projects alone, the two skipped
\* fields left out
to_string_pretty(projs) ==
    [kind |-> "toml",
     projects |-> [i \in 1..Len(projs) |->
                     [name |-> projs[i].name,
                      description |-> projs[i].description,
                      status |-> to_token(projs[i].status)]]]

\* toml::from_str::<ProjectLibrary>: an error, or the projects (the skipped
\* fields take their defaults)
from_str(f) ==
    IF f.kind /= "toml"
       \/ \E i \in 1..Len(f.projects) : from_token(f.projects[i].status) = "Err"
    THEN [ok |-> FALSE, projects |-> <<>>]
    ELSE [ok |-> TRUE,
          projects |-> [i \in 1..Len(f.projects) |->
                          [name |-> f.projects[i].name,
                           description |-> f.projects[i].description,
                           status |-> from_token(f.projects[i].status)]]]

\* the record of a call of from_file or save
RecordIO(op) ==
    /\ last_call' = Call(op, "None", NoProject, "None")
    /\ before' = Snapshot
    /\ prev_call' = [op |-> last_call.op, direction |-> last_call.direction]
    /\ before_prev' = before
    /\ UNCHANGED <<run_start, run_count>>

from_file_body_unbound(file_path) ==
    LET parsed == from_str(file)
    IN /\ IF parsed.ok
          THEN /\ projects' = parsed.projects
               /\ selected_project_index' = 0
               /\ library_file_path' = ""
               /\ ret' = "Ok"
          ELSE /\ UNCHANGED <<projects, selected_project_index,
                              library_file_path>>
               /\ ret' = "Err"
       /\ UNCHANGED <<file, panicked, save_calls>>
       /\ RecordIO("from_file")

\* ProjectLibrary::from_file(file_path): read, parse, bind the path
from_file_body(file_path) ==
    LET parsed == from_str(file)
    IN /\ IF parsed.ok
          THEN /\ projects' = parsed.projects
               /\ selected_project_index' = 0
               /\ library_file_path' = file_path
               /\ ret' = "Ok"
          ELSE /\ UNCHANGED <<projects, selected_project_index,
                              library_file_path>>
               /\ ret' = "Err"
       /\ UNCHANGED <<file, panicked, save_calls>>
       /\ RecordIO("from_file")

\* ProjectLibrary::save: serialize, then fs::write to the bound path. A
\* write that fails leaves the file as it was or cut short; no file can
\* be written at the empty path of a default library.
save_body ==
    /\ \/ /\ library_file_path /= ""
          /\ file' = to_string_pretty(projects)
          /\ ret' = "Ok"
       \/ /\ file' \in {file} \cup (IF library_file_path = "" THEN {} ELSE {NotToml})
          /\ ret' = "Err"
    /\ save_calls' = save_calls + 1
    /\ UNCHANGED <<projects, selected_project_index, library_file_path,
                   panicked>>
    /\ RecordIO("save")

\* the libraries a program may hold in memory, with no file written yet
InMemory ==
    /\ projects \in SeqsUpTo(Project, MaxLoaded)
    /\ selected_project_index \in -MaxIndexDrift..MaxLoaded
    /\ library_file_path \in Paths \cup {""}
    /\ file = NoFile

\* a default library, and anything at the path
OnDisk == Default /\ file \in Files

PersistInit ==
    /\ InMemory \/ OnDisk
    /\ ret = "none"
    /\ pc = "none"
    /\ terminal = "cooked"
    /\ save_calls = 0
    /\ InitRest

load ==
    /\ ~panicked
    /\ \E file_path \in Paths : from_file_body(file_path)
    /\ UNCHANGED <<state, overflow_checks, pc, terminal>>

save ==
    /\ ~panicked
    /\ save_calls < MaxSaves
    /\ save_body
    /\ UNCHANGED <<state, overflow_checks, pc, terminal>>

PersistNext == load \/ save

SpecPersist == PersistInit /\ [][PersistNext]_vars

\* ================================================================ claims
\* the index selects an element of a vector of that length
ValidIndex(index, len) == index >= 0 /\ index < len

\* C1: whenever projects is non-empty, 0 <= selected_index < len(projects),
\* in every state reached by add_project, cycle_selected_project and
\* cycle_selected_project_status calls.
C1_SelectedIndexInRange ==
    Len(projects) > 0 => ValidIndex(selected_project_index, Len(projects))

\* C2: on an empty projects vector cycle_selected_project, Up or Down, does
\* not panic and leaves the library as it was, selected index included.
C2_CycleOnEmptyIsNoOp ==
    (last_call.op = "cycle_selected_project" /\ Len(before.projects) = 0)
    => /\ ~panicked
       /\ projects = before.projects
       /\ selected_project_index = before.index
       /\ library_file_path = before.path

\* C3: on a non-empty vector of length n with a valid index i,
\* cycle_selected_project(Down) leaves (i + 1) mod n and
\* cycle_selected_project(Up) leaves (i - 1) mod n, without panicking.
C3_CycleSelectedWraps ==
    (/\ last_call.op = "cycle_selected_project"
     /\ Len(before.projects) > 0
     /\ ValidIndex(before.index, Len(before.projects)))
    => LET n == Len(before.projects)
           i == before.index
       IN /\ ~panicked
          /\ projects = before.projects
          /\ selected_project_index =
                IF last_call.direction = "Down"
                THEN (i + 1) % n
                ELSE (i + n - 1) % n

\* C3 witness: Down on the last of three projects has selected the first.
C3_Witness ==
    /\ last_call.op = "cycle_selected_project"
    /\ last_call.direction = "Down"
    /\ Len(before.projects) = 3
    /\ before.index = 2
    /\ selected_project_index = 0

\* C4: after add_project on an empty vector, however that empty library was
\* reached, the selected index is 0 and selects the added project.
C4_FirstAddSelectsIndex0 ==
    (last_call.op = "add_project" /\ Len(before.projects) = 0)
    => /\ selected_project_index = 0
       /\ ValidIndex(selected_project_index, Len(projects))

\* C5: add_project(p) appends p as the last element: the length grows by
\* one, every earlier project keeps its position, name, description and
\* status, the selected index is unchanged, and a project whose name is
\* already present is added like any other.
C5_AddAppends ==
    last_call.op = "add_project"
    => /\ Len(projects) = Len(before.projects) + 1
       /\ projects[Len(projects)] = last_call.project
       /\ \A i \in 1..Len(before.projects) : projects[i] = before.projects[i]
       /\ selected_project_index = before.index
       /\ ~panicked

\* C5 witness: a project was added to a non-empty library that already
\* held a project of the same name.
C5_Witness ==
    /\ last_call.op = "add_project"
    /\ Len(before.projects) > 0
    /\ \E i \in 1..Len(before.projects) :
          before.projects[i].name = last_call.project.name
    /\ Len(projects) = Len(before.projects) + 1

\* the forward order of the statuses
ForwardOrder(s) ==
    CASE s = "Idea" -> "InProgress"
      [] s = "InProgress" -> "Finished"
      [] s = "Finished" -> "Paused"
      [] s = "Paused" -> "Idea"

\* C6: cycle with direction Up follows Idea -> InProgress -> Finished ->
\* Paused -> Idea for each of the four statuses, and the advance-status key
\* of the key dispatch cycles the selected project's status that way.
C6_ForwardOrder ==
    /\ \A s \in ProjectStatus : cycle(s, "Up") = ForwardOrder(s)
    /\ last_call.key = " "
       => /\ last_call.op = "cycle_selected_project_status"
          /\ last_call.direction = "Up"
          /\ Len(projects) = Len(before.projects)
          /\ \A i \in 1..Len(projects) :
                projects[i].status =
                   IF i = before.index + 1
                   THEN ForwardOrder(before.projects[i].status)
                   ELSE before.projects[i].status

\* C6 witness: the advance-status key was pressed on a selected project
\* that was Finished, which is now Paused.
C6_Witness ==
    /\ last_call.key = " "
    /\ ValidIndex(before.index, Len(before.projects))
    /\ before.projects[before.index + 1].status = "Finished"
    /\ projects[before.index + 1].status = "Paused"

\* C7: the two status cycles are inverse: cycle(cycle(s, Up), Down) = s and
\* cycle(cycle(s, Down), Up) = s for every status s, so two status cycles
\* of the selected project in opposite directions restore the projects.
C7_CyclesAreInverse ==
    /\ \A s \in ProjectStatus :
          /\ cycle(cycle(s, "Up"), "Down") = s
          /\ cycle(cycle(s, "Down"), "Up") = s
    /\ (/\ last_call.op = "cycle_selected_project_status"
        /\ prev_call.op = "cycle_selected_project_status"
        /\ last_call.direction /= prev_call.direction)
       => projects = before_prev.projects

\* C7 witness: the selected project, an Idea, was cycled Down (to Paused)
\* and then Up, and is an Idea again.
C7_Witness ==
    /\ last_call.op = "cycle_selected_project_status"
    /\ last_call.direction = "Up"
    /\ prev_call.op = "cycle_selected_project_status"
    /\ prev_call.direction = "Down"
    /\ ValidIndex(before.index, Len(before.projects))
    /\ before_prev.projects[before.index + 1].status = "Idea"
    /\ before.projects[before.index + 1].status = "Paused"
    /\ projects[before.index + 1].status = "Idea"

\* C8: on a non-empty library of n projects, n consecutive
\* cycle_selected_project(Down) calls return the selected index to the
\* value it had before the first of them.
C8_FullTraversalReturns ==
    (Len(projects) > 0 /\ run_count = Len(projects))
    => selected_project_index = run_start

\* C9: on a non-empty library, cycle_selected_project(Up) followed by
\* cycle_selected_project(Down), or Down followed by Up, restores the
\* selected index.
C9_UpDownRestores ==
    (/\ last_call.op = "cycle_selected_project"
     /\ prev_call.op = "cycle_selected_project"
     /\ last_call.direction /= prev_call.direction
     /\ Len(projects) > 0)
    => selected_project_index = before_prev.index

\* C10: cycle_selected_project_status, Up or Down, on an empty vector or
\* with an index out of range does not panic and leaves projects and the
\* selected index unchanged.
C10_StatusCycleOutOfRangeIsNoOp ==
    (/\ last_call.op = "cycle_selected_project_status"
     /\ ~ValidIndex(before.index, Len(before.projects)))
    => /\ ~panicked
       /\ projects = before.projects
       /\ selected_project_index = before.index

\* C10 witness: the status was cycled on a non-empty library whose
\* selected index was out of range.
C10_Witness ==
    /\ last_call.op = "cycle_selected_project_status"
    /\ Len(before.projects) > 0
    /\ ~ValidIndex(before.index, Len(before.projects))
    /\ projects = before.projects

\* the four status tokens of the document schema
RecognizedTokens == {"finished", "in_progress", "idea", "paused"}

\* C11: loading the document that save wrote for a library L yields the
\* projects of L (names, descriptions, statuses, order) and selected index
\* 0, whatever L's selected index was; the document holds the projects
\* alone, neither the selection index nor the path.
C11_RoundTrip ==
    (/\ last_call.op = "from_file"
     /\ prev_call.op = "save"
     /\ before.ret = "Ok")
    => /\ ret = "Ok"
       /\ projects = before_prev.projects
       /\ selected_project_index = 0
       /\ DOMAIN file = {"kind", "projects"}
       /\ \A i \in 1..Len(file.projects) :
             DOMAIN file.projects[i] = {"name", "description", "status"}

\* C11 witness: a library of two projects, one of them in progress, with
\* the second selected, was saved and loaded back with index 0.
C11_Witness ==
    /\ last_call.op = "from_file"
    /\ prev_call.op = "save"
    /\ before.ret = "Ok"
    /\ Len(before_prev.projects) = 2
    /\ before_prev.index = 1
    /\ before_prev.projects[1].status = "InProgress"
    /\ projects = before_prev.projects
    /\ selected_project_index = 0

\* C12: loading a document in which some project's status token is not
\* one of finished, in_progress, idea, paused fails with an error and
\* yields no library.
C12_UnknownStatusFails ==
    (/\ last_call.op = "from_file"
     /\ file.kind = "toml"
     /\ \E i \in 1..Len(file.projects) :
           file.projects[i].status \notin RecognizedTokens)
    => /\ ret = "Err"
       /\ projects = before.projects
       /\ selected_project_index = before.index
       /\ library_file_path = before.path

\* C12 witness: a document whose second project has the status token
\* "done" was loaded, and the load returned an error.
C12_Witness ==
    /\ last_call.op = "from_file"
    /\ file.kind = "toml"
    /\ Len(file.projects) = 2
    /\ file.projects[1].status = "idea"
    /\ file.projects[2].status = "done"
    /\ ret = "Err"

\* ------------------------------------------------------------- rendering
\* ProjectStatus::to_symbol: the glyph ("check" stands for the check mark)
\* and its colour
to_symbol(status) ==
    CASE status = "Finished" -> [content |-> "check", style |-> "green"]
      [] status = "InProgress" -> [content |-> "-", style |-> "yellow"]
      [] status = "Paused" -> [content |-> "X", style |-> "red"]
      [] status = "Idea" -> [content |-> "!", style |-> "white"]

\* Display for ProjectStatus
fmt(status) ==
    CASE status = "Finished" -> "Finished"
      [] status = "InProgress" -> "In Progress"
      [] status = "Paused" -> "Paused"
      [] status = "Idea" -> "Idea"

\* Project::to_list_item: "<glyph> <name>" in the glyph's colour
to_list_item(project) ==
    [text |-> <<to_symbol(project.status).content, project.name>>,
     style |-> to_symbol(project.status).style,
     highlighted |-> FALSE]

\* build_project_list: the items in order, the one at the selected index
\* bold on blue
build_project_list(projs, index) ==
    [i \in 1..Len(projs) |->
        IF i - 1 = index
        THEN [to_list_item(projs[i]) EXCEPT !.highlighted = TRUE]
        ELSE to_list_item(projs[i])]

\* Widget::render for &ProjectLibrary: the list pane and the details pane,
\* which is the bordered block alone when the index selects nothing
render(projs, index) ==
    [list |-> build_project_list(projs, index),
     details |->
        IF usize_lt(index, Len(projs))
        THEN [empty |-> FALSE,
              name |-> projs[index + 1].name,
              status |-> fmt(projs[index + 1].status),
              description |-> projs[index + 1].description]
        ELSE [empty |-> TRUE, name |-> "", status |-> "", description |-> ""]]

\* --------------------------------------- the library with file and view
\* what the path holds before the library is first loaded
LibraryFiles ==
    {NoFile,
     [kind |-> "toml",
      projects |-> <<[name |-> "Website", description |-> "Personal site",
                      status |-> "in_progress"]>>]}

LibraryInit ==
    /\ Default
    /\ file \in LibraryFiles
    /\ ret = "none"
    /\ pc = "none"
    /\ terminal = "cooked"
    /\ save_calls = 0
    /\ InitRest

\* render takes &self: the library is read, not written
render_call ==
    /\ ~panicked
    /\ UNCHANGED <<projects, selected_project_index, library_file_path,
                   panicked>>
    /\ Record(Call("render", "None", NoProject, "None"))
    /\ UNCHANGED <<state, overflow_checks, process>>

\* The library is changed until it is first saved, and grown up to
\* MaxLoaded projects; from then on it is rendered, loaded and saved.
Unsaved == save_calls = 0

LibraryNext ==
    \/ load
    \/ Unsaved /\ Len(projects) < MaxLoaded /\ add_project
    \/ Unsaved /\ cycle_selected_project
    \/ Unsaved /\ cycle_selected_project_status
    \/ render_call
    \/ save

SpecLibrary == LibraryInit /\ [][LibraryNext]_vars

\* C14: the path is bound by a load that succeeds, to the path given, and
\* nothing else changes it: a failed load, add_project,
\* cycle_selected_project, cycle_selected_project_status, save and render
\* leave it as it was.
C14_PathBoundOnce ==
    /\ (last_call.op = "from_file" /\ ret = "Ok")
       => library_file_path \in Paths
    /\ (last_call.op = "from_file" /\ ret = "Err")
       => library_file_path = before.path
    /\ last_call.op \in {"add_project", "cycle_selected_project",
                         "cycle_selected_project_status", "save", "render"}
       => library_file_path = before.path

\* C14 witness: a loaded library was saved to the path it was loaded from.
C14_Witness ==
    /\ last_call.op = "save"
    /\ ret = "Ok"
    /\ before.path \in Paths
    /\ library_file_path = before.path

\* C15: a render leaves the library as it was; when projects is non-empty
\* exactly one list entry is highlighted and the details pane shows the
\* name, status and description of that project; the details pane is
\* empty exactly when the library is empty.
C15_ViewPairsListAndDetails ==
    last_call.op = "render"
    => LET view == render(projects, selected_project_index)
           lit == {i \in 1..Len(projects) : view.list[i].highlighted}
       IN /\ projects = before.projects
          /\ selected_project_index = before.index
          /\ library_file_path = before.path
          /\ Len(projects) > 0
             => /\ Cardinality(lit) = 1
                /\ \A i \in lit :
                      /\ ~view.details.empty
                      /\ view.details.name = projects[i].name
                      /\ view.details.status = fmt(projects[i].status)
                      /\ view.details.description = projects[i].description
          /\ view.details.empty <=> Len(projects) = 0

\* C17: cycle_selected_project_status on a non-empty library with a valid
\* selection sets the selected project's status to cycle(old status,
\* direction) and changes nothing else: not the index, not the number or
\* order of the projects, no name, no description, no other status.
C17_StatusCycleChangesSelectedOnly ==
    (/\ last_call.op = "cycle_selected_project_status"
     /\ ValidIndex(before.index, Len(before.projects)))
    => /\ selected_project_index = before.index
       /\ library_file_path = before.path
       /\ Len(projects) = Len(before.projects)
       /\ \A i \in 1..Len(projects) :
             projects[i] =
                IF i = before.index + 1
                THEN [before.projects[i] EXCEPT
                         !.status = cycle(before.projects[i].status,
                                          last_call.direction)]
                ELSE before.projects[i]

\* C17 witness: the status of the second of three projects was cycled
\* Down from Idea to Paused.
C17_Witness ==
    /\ last_call.op = "cycle_selected_project_status"
    /\ last_call.direction = "Down"
    /\ Len(before.projects) = 3
    /\ before.index = 1
    /\ before.projects[2].status = "Idea"
    /\ projects[2].status = "Paused"

\* ------------------------------------------------------------------ main
\* main before the library is loaded: no library yet (the variables hold
\* the default one), the terminal untouched, and at the path nothing, text
\* that is no document, or a document whose projects are in progress or
\* carry the unknown status token
MainFiles ==
    {NoFile, NotToml}
    \cup {[kind |-> "toml", projects |-> d] :
             d \in SeqsUpTo({t \in Table : t.status \in {"in_progress", "done"}},
                            MaxLoaded)}

MainInit ==
    /\ Default
    /\ file \in MainFiles
    /\ ret = "none"
    /\ pc = "main"
    /\ terminal = "cooked"
    /\ save_calls = 0
    /\ InitRest

history == <<last_call, before, prev_call, before_prev, run_start, run_count>>

library == <<projects, selected_project_index, library_file_path>>

\* main, lines 99-106: a missing file is first written as the document of
\* the default library; a failure there is returned
main_bootstrap ==
    /\ pc = "main"
    /\ ~panicked
    /\ IF file.kind = "missing"
       THEN \/ /\ file' = to_string_pretty(<<>>)
               /\ pc' = "load"
               /\ UNCHANGED ret
            \/ /\ file' \in {file, NotToml}
               /\ ret' = "Err"
               /\ pc' = "done"
       ELSE /\ pc' = "load"
            /\ UNCHANGED <<file, ret>>
    /\ UNCHANGED <<library, state, overflow_checks, panicked, history,
                   terminal, save_calls>>

\* main, lines 108-111: from_file, whose error is returned; then the
\* terminal is initialised and cleared, and a failure to clear is returned
\* with the terminal left as it is
main_load ==
    /\ pc = "load"
    /\ ~panicked
    /\ \E file_path \in Paths : from_file_body(file_path)
    /\ IF ret' = "Ok"
       THEN /\ terminal' = "raw"
            /\ pc' \in {"run", "done"}
       ELSE /\ terminal' = terminal
            /\ pc' = "done"
    /\ UNCHANGED <<state, overflow_checks>>

\* the condition of the loop of App::run
run_loop_always == TRUE

run_loop_condition == state /= "Exiting"

\* App::run, lines 32-35, one pass of the loop: terminal.draw renders the
\* library and may fail; then handle_events reads an event, which may
\* fail; a key press goes to handle_key_event, any other event is dropped
run_loop_pass ==
    /\ pc = "run"
    /\ ~panicked
    /\ run_loop_condition
    /\ \/ /\ \E key \in KeyCode : handle_key_event(key)
          /\ pc' = "run"
          /\ ret' = "Ok"
       \/ /\ pc' = "run"
          /\ ret' = "Ok"
          /\ UNCHANGED <<library, state, panicked, history>>
       \/ /\ pc' = "restore"
          /\ ret' = "Err"
          /\ UNCHANGED <<library, state, panicked, history>>
    /\ UNCHANGED <<overflow_checks, file, terminal, save_calls>>

\* App::run, line 37, with App::exit: the loop is over, the library is
\* saved, and run returns what save returned
run_exit_without_save ==
    /\ pc = "run"
    /\ ~panicked
    /\ ~run_loop_condition
    /\ pc' = "restore"
    /\ ret' = "Ok"
    /\ UNCHANGED <<library, state, overflow_checks, panicked, history, file,
                   terminal, save_calls>>

run_exit ==
    /\ pc = "run"
    /\ ~panicked
    /\ ~run_loop_condition
    /\ save_body
    /\ pc' = "restore"
    /\ UNCHANGED <<state, overflow_checks, terminal>>

\* main, lines 113-114: the terminal is restored, then the result of run
\* is returned
main_restore_unless_error ==
    /\ pc = "restore"
    /\ ~panicked
    /\ terminal' = IF ret = "Err" THEN terminal ELSE "restored"
    /\ pc' = "done"
    /\ UNCHANGED <<library, state, overflow_checks, panicked, history, file,
                   ret, save_calls>>

main_restore ==
    /\ pc = "restore"
    /\ ~panicked
    /\ terminal' = "restored"
    /\ pc' = "done"
    /\ UNCHANGED <<library, state, overflow_checks, panicked, history, file,
                   ret, save_calls>>

MainNext ==
    \/ main_bootstrap
    \/ main_load
    \/ run_loop_pass
    \/ run_exit
    \/ main_restore

SpecMain == MainInit /\ [][MainNext]_vars

\* C13: save is called at most once; it has been called exactly when the
\* loop of run has ended with the exit requested, and never before the
\* exit request, so no selection move, status change or mode change
\* triggers a save.
C13_SavedOnceAtCleanShutdown ==
    /\ save_calls <= 1
    /\ save_calls = 1 <=> (state = "Exiting" /\ pc \in {"restore", "done"})
    /\ last_call.key \in KeyCode \ {"q"} => save_calls = 0

\* C13 witness: the statuses were changed, quit was pressed, and the
\* library was saved once, the run over.
C13_Witness ==
    /\ pc = "done"
    /\ state = "Exiting"
    /\ save_calls = 1
    /\ ret = "Ok"
    /\ Len(projects) = 2
    /\ projects[1].status = "Finished"

\* C16: a save that fails at shutdown is returned as an error and ends the
\* run: the loop is not entered again, save is not called again, and the
\* terminal is restored before main returns the error.
C16_SaveFailureStillTerminates ==
    (save_calls >= 1 /\ ret = "Err")
    => /\ save_calls = 1
       /\ pc \in {"restore", "done"}
       /\ pc = "done" => terminal = "restored"

\* C16 witness: save failed and main has returned the error, the terminal
\* restored.
C16_Witness ==
    /\ save_calls = 1
    /\ ret = "Err"
    /\ pc = "done"
    /\ terminal = "restored"
    /\ last_call.op = "save"

\* C18: once a quit key has set the state to Exiting no further key event
\* is handled: the state stays Exiting, the quit key is the last key
\* handled, and the library that is saved (and the document written) is
\* the library as it was when quit was pressed.
C18_ExitingIsAbsorbing ==
    /\ (state = "Exiting" /\ save_calls = 0)
       => /\ last_call.key = "q"
          /\ projects = before.projects
          /\ selected_project_index = before.index
    /\ save_calls >= 1
       => /\ state = "Exiting"
          /\ last_call.op = "save"
          /\ prev_call.op = "none"
          /\ projects = before_prev.projects
          /\ selected_project_index = before_prev.index
          /\ ret = "Ok" => file = to_string_pretty(before_prev.projects)

\* C18 witness: quit was pressed with a project moved to Paused, and the
\* document written holds that status.
C18_Witness ==
    /\ state = "Exiting"
    /\ last_call.op = "save"
    /\ ret = "Ok"
    /\ Len(before_prev.projects) = 1
    /\ before_prev.projects[1].status = "Paused"
    /\ file.projects[1].status = "paused"

\* the names and descriptions of a projects sequence, in order
Shape(projs) ==
    [i \in 1..Len(projs) |-> <<projs[i].name, projs[i].description>>]

\* C19: no key event changes the number, order, names or descriptions of
\* the projects: a key leaves them as they were before it, and the loaded
\* library keeps those of the document it was loaded from, up to and
\* through the save.
C19_KeysKeepProjectsShape ==
    /\ last_call.key \in KeyCode
       => Shape(projects) = Shape(before.projects)
    /\ (library_file_path \in Paths /\ (save_calls = 0 \/ ret = "Ok"))
       => /\ file.kind = "toml"
          /\ Shape(projects) = Shape(file.projects)

\* C19 witness: the add-project key was handled on a library of two
\* projects, which still holds those two.
C19_Witness ==
    /\ last_call.key = "A"
    /\ state = "AddingProject"
    /\ Len(before.projects) = 2
    /\ Shape(projects) = Shape(before.projects)

\* what a key does to the library, whatever the mode
KeyDirection(key) ==
    IF key \in {"Up", "k"} THEN "Up" ELSE "Down"

\* C20: what a key does to the library does not depend on the mode: from
\* the same library the move keys give the index (or the panic) of
\* cycle_selected_project, the advance-status key the projects of
\* cycle_selected_project_status(Up), every other key the same library,
\* in MainView, AddingProject and DeletingProject alike, and the quit key
\* leads to Exiting from each of them.
C20_KeyEffectIgnoresMode ==
    last_call.key \in KeyCode
    => LET key == last_call.key
           moved == next_selected(before.index, Len(before.projects),
                                  KeyDirection(key), overflow_checks)
       IN /\ before.state \in {"MainView", "AddingProject", "DeletingProject"}
          /\ selected_project_index =
                IF key \in {"Up", "k", "Down", "j"}
                THEN moved.index
                ELSE before.index
          /\ panicked = (key \in {"Up", "k", "Down", "j"} /\ moved.panic)
          /\ projects =
                IF key = " "
                THEN [i \in 1..Len(before.projects) |->
                        IF i \in get_mut(before.projects, before.index)
                        THEN cycle_status(before.projects[i], "Up")
                        ELSE before.projects[i]]
                ELSE before.projects
          /\ key = "q" => state = "Exiting"

\* C20 witness: in the AddingProject mode the move-down key moved the
\* selection from the first project to the second.
C20_Witness ==
    /\ last_call.key = "j"
    /\ before.state = "AddingProject"
    /\ state = "AddingProject"
    /\ before.index = 0
    /\ selected_project_index = 1

====
